---------------------------- MODULE Spec2Model ----------------------------
(***************************************************************************)
(* CORD-19 explorer: the analyzer of analysis.py (load, clean, queries)    *)
(* and the Streamlit page of app.py (one run of main() per interaction).   *)
(*                                                                         *)
(* Encoding.  A text is a sequence of one-character strings.  A pandas     *)
(* cell or a Python reference that may be missing is a sequence of length  *)
(* at most one: NaN (also None, NaT) is << >> and a present value x is     *)
(* << x >>.  A DataFrame is a record [columns, rows]; a row is a record    *)
(* holding its index label and one field per column.                       *)
(*                                                                         *)
(* Three specifications.  Spec: the analyzer called in any order on one    *)
(* file.  SpecApp: a Streamlit session, one run of main() per step.        *)
(* SpecText: analyze_word_frequencies on a column of bounded texts.        *)
(*                                                                         *)
(* Not modelled: the drawing of charts and of the word cloud, the dtype    *)
(* pandas infers for a column (an all-NaN column is read as float64), and  *)
(* explore_data / create_visualizations.  Abstracts of the row pool are    *)
(* short, so the branch of app.py line 242 (more than 100 characters of    *)
(* abstracts) is written out but not taken.                                *)
(***************************************************************************)
EXTENDS Integers, Sequences, FiniteSets, TLC

VARIABLES
    file,        \* what pd.read_csv(file_path) finds: NaN (unreadable) or a table
    df,          \* CORD19Analyzer.df
    df_clean,    \* CORD19Analyzer.df_clean
    call,        \* the analyzer method invoked last
    ret,         \* what that call returned or raised
    session,     \* 'analyzer' in st.session_state
    outcome,     \* how the last run of main() ended
    criteria,    \* the widget values of the last run that reached the filters
    view,        \* what the last run handed to the page
    column,      \* text analysis: the values of the analysed column
    top_n,       \* text analysis: top_n
    words,       \* text analysis: the tokens of line 130
    top_words    \* text analysis: the returned table

vars == <<file, df, df_clean, call, ret, session, outcome, criteria, view,
          column, top_n, words, top_words>>

----------------------------------------------------------------------------
(* Missing values *)

NaN == << >>

Val(x) == << x >>

isna(v) == v = NaN

Get(v) == v[1]

----------------------------------------------------------------------------
(* Characters and str methods *)

LowerLetters == <<"a","b","c","d","e","f","g","h","i","j","k","l","m",
                  "n","o","p","q","r","s","t","u","v","w","x","y","z">>

UpperLetters == <<"A","B","C","D","E","F","G","H","I","J","K","L","M",
                  "N","O","P","Q","R","S","T","U","V","W","X","Y","Z">>

Digits == {"0","1","2","3","4","5","6","7","8","9"}

Whitespace == {" ", "\t"}

Range(s) == {s[i] : i \in DOMAIN s}

LowerSet == Range(LowerLetters)

UpperSet == Range(UpperLetters)

IsLower(c) == c \in LowerSet

IsUpper(c) == c \in UpperSet

IsLetter(c) == IsLower(c) \/ IsUpper(c)

\* \w of the re module, on the characters of the model
IsWordChar(c) == IsLetter(c) \/ c \in Digits \/ c = "_"

IsSpace(c) == c \in Whitespace

LetterIndex(c) == CHOOSE i \in 1..Len(LowerLetters) :
                      LowerLetters[i] = c \/ UpperLetters[i] = c

Lower(c) == IF IsUpper(c) THEN LowerLetters[LetterIndex(c)] ELSE c

Upper(c) == IF IsLower(c) THEN UpperLetters[LetterIndex(c)] ELSE c

\* str.lower()
StrLower(s) == [i \in 1..Len(s) |-> Lower(s[i])]

\* str.title(): a letter that follows a non-letter (or starts the string) is
\* upper-cased, every other letter lower-cased
StrTitle(s) == [i \in 1..Len(s) |->
                  IF i = 1 \/ ~IsLetter(s[i-1]) THEN Upper(s[i]) ELSE Lower(s[i])]

RECURSIVE LStrip(_)
LStrip(s) == IF s # << >> /\ IsSpace(Head(s)) THEN LStrip(Tail(s)) ELSE s

RECURSIVE RStrip(_)
RStrip(s) == IF s # << >> /\ IsSpace(s[Len(s)])
             THEN RStrip(SubSeq(s, 1, Len(s) - 1)) ELSE s

\* str.strip()
StrStrip(s) == RStrip(LStrip(s))

\* str.split() with no separator: the maximal runs of non-whitespace.
\* SplitFrom scans from position i with the current run in cur.
RECURSIVE SplitFrom(_, _, _)
SplitFrom(s, i, cur) ==
    IF i > Len(s) THEN (IF cur = << >> THEN << >> ELSE << cur >>)
    ELSE IF IsSpace(s[i])
         THEN (IF cur = << >> THEN << >> ELSE << cur >>) \o SplitFrom(s, i + 1, << >>)
         ELSE SplitFrom(s, i + 1, Append(cur, s[i]))

StrSplit(s) == SplitFrom(s, 1, << >>)

\* ' '.join(parts)
RECURSIVE Join(_)
Join(parts) ==
    IF parts = << >> THEN << >>
    ELSE IF Len(parts) = 1 THEN parts[1]
    ELSE parts[1] \o <<" ">> \o Join(Tail(parts))

Max(S) == CHOOSE x \in S : \A y \in S : y <= x

Min(S) == CHOOSE x \in S : \A y \in S : x <= y

----------------------------------------------------------------------------
(* analyze_word_frequencies: tokens, stop words, Counter.most_common *)

MinWordLen == 3

\* \b at position i of s (between s[i-1] and s[i], 1 <= i <= Len(s)+1)
AtBoundary(s, i) ==
    LET before == i > 1 /\ IsWordChar(s[i-1])
        after  == i <= Len(s) /\ IsWordChar(s[i])
    IN  before # after

\* the ends j of the matches of \b[a-zA-Z]{3,}\b that start at i
MatchEnds(s, i) ==
    {j \in i..Len(s) :
        /\ AtBoundary(s, i)
        /\ \A k \in i..j : IsLetter(s[k])
        /\ j - i + 1 >= MinWordLen
        /\ AtBoundary(s, j + 1)}

\* re.findall: leftmost match, greedy, then on from its end
RECURSIVE FindallFrom(_, _)
FindallFrom(s, pos) ==
    IF pos > Len(s) THEN << >>
    ELSE LET ends == MatchEnds(s, pos)
         IN  IF ends = {} THEN FindallFrom(s, pos + 1)
             ELSE << SubSeq(s, pos, Max(ends)) >> \o FindallFrom(s, Max(ends) + 1)

Findall(s) == FindallFrom(s, 1)

stop_words ==
    { <<"t","h","e">>, <<"a","n","d">>, <<"o","f">>, <<"i","n">>, <<"t","o">>,
      <<"a">>, <<"f","o","r">>, <<"w","i","t","h">>, <<"o","n">>, <<"b","y">>,
      <<"a","s">>, <<"a","n">>, <<"f","r","o","m">>, <<"t","h","a","t">>,
      <<"t","h","i","s">>, <<"i","s">>, <<"a","r","e">>, <<"w","a","s">>,
      <<"w","e","r","e">>, <<"b","e">>, <<"h","a","s">>, <<"h","a","v","e">>,
      <<"h","a","d">>, <<"b","u","t">>, <<"n","o","t">>, <<"a","t">>,
      <<"w","h","i","c","h">>, <<"o","r">>, <<"i","t">>, <<"i","t","s">>,
      <<"t","h","e","i","r">>, <<"t","h","e","y">>, <<"t","h","e","m">>,
      <<"t","h","e","s","e">>, <<"t","h","o","s","e">>, <<"s","u","c","h">> }

\* Series.dropna()
DropNa(col) == SelectSeq(col, LAMBDA v : ~isna(v))

\* line 127: ' '.join(self.df_clean[column].dropna().astype(str))
AllText(col) == LET kept == DropNa(col)
                IN  Join([i \in 1..Len(kept) |-> Get(kept[i])])

\* line 130
WordsOf(col) == Findall(StrLower(AllText(col)))

\* line 138
FilteredWords(ws) == SelectSeq(ws, LAMBDA w : w \notin stop_words)

\* the keys of a Counter, in insertion order (first occurrence)
RECURSIVE FirstSeen(_)
FirstSeen(ws) ==
    IF ws = << >> THEN << >>
    ELSE LET init == FirstSeen(SubSeq(ws, 1, Len(ws) - 1))
             w    == ws[Len(ws)]
         IN  IF w \in Range(init) THEN init ELSE Append(init, w)

Occurrences(ws, w) == Cardinality({i \in DOMAIN ws : ws[i] = w})

\* Counter(ws).items(): <<key, count>> pairs in insertion order
CounterItems(ws) ==
    LET keys == FirstSeen(ws)
    IN  [i \in 1..Len(keys) |-> <<keys[i], Occurrences(ws, keys[i])>>]

RemoveAt(s, i) == SubSeq(s, 1, i - 1) \o SubSeq(s, i + 1, Len(s))

\* variant of SortedByCountDesc: among equal counts the item inserted last
\* comes first
RECURSIVE SortedByCountDescLastFirst(_)
SortedByCountDescLastFirst(items) ==
    IF items = << >> THEN << >>
    ELSE LET top == Max({items[i][2] : i \in DOMAIN items})
             i   == Max({k \in DOMAIN items : items[k][2] = top})
         IN  << items[i] >> \o SortedByCountDescLastFirst(RemoveAt(items, i))

\* sorted(items, key=count, reverse=True): descending, equal counts keep
\* their order
RECURSIVE SortedByCountDesc(_)
SortedByCountDesc(items) ==
    IF items = << >> THEN << >>
    ELSE LET top == Max({items[i][2] : i \in DOMAIN items})
             i   == Min({k \in DOMAIN items : items[k][2] = top})
         IN  << items[i] >> \o SortedByCountDesc(RemoveAt(items, i))

\* Counter.most_common(n)
MostCommon(items, n) ==
    LET sorted == SortedByCountDesc(items)
    IN  SubSeq(sorted, 1, IF n < Len(sorted) THEN n ELSE Len(sorted))

\* lines 126-144 on the values of one column
WordFrequencies(col, n) == MostCommon(CounterItems(FilteredWords(WordsOf(col))), n)

----------------------------------------------------------------------------
(* DataFrames *)

RecognizedColumns == {"title", "abstract", "journal", "source_x", "publish_time"}

Unknown == <<"U","n","k","n","o","w","n">>

\* the publish_time strings of the model and the (year, month) that
\* pd.to_datetime reads from each; every other string is unparseable
KnownDates == [d \in {"2018-05-02", "2019-01-15", "2019-03-09"} |->
                 CASE d = "2018-05-02" -> [year |-> 2018, month |-> 5]
                   [] d = "2019-01-15" -> [year |-> 2019, month |-> 1]
                   [] d = "2019-03-09" -> [year |-> 2019, month |-> 3]]

\* pd.to_datetime(x, errors='coerce') on one cell
to_datetime(v) ==
    IF isna(v) THEN NaN
    ELSE IF Get(v) \in DOMAIN KnownDates THEN Val(KnownDates[Get(v)])
    ELSE NaN

\* .dt.year on one cell
dt_year(v) == IF isna(v) THEN NaN ELSE Val(Get(v).year)

\* Series.fillna(x) on one cell
fillna(v, x) == IF isna(v) THEN Val(x) ELSE v

\* df[c] = values, one value per row
SetColumn(t, c, values) ==
    [columns |-> t.columns \cup {c},
     rows    |-> [i \in 1..Len(t.rows) |->
                    [k \in DOMAIN t.rows[i] \cup {c} |->
                        IF k = c THEN values[i] ELSE t.rows[i][k]]]]

RECURSIVE Masked(_, _)
Masked(rows, mask) ==
    IF rows = << >> THEN << >>
    ELSE (IF Head(mask) THEN << Head(rows) >> ELSE << >>)
             \o Masked(Tail(rows), Tail(mask))

\* df[mask], mask a boolean per row
SelectRows(t, mask) == [t EXCEPT !.rows = Masked(t.rows, mask)]

\* df[c] as the sequence of its cells
ColumnOf(t, c) == [i \in 1..Len(t.rows) |-> t.rows[i][c]]

\* Series.value_counts(): NaN dropped, descending by count; equal counts are
\* kept in order of first occurrence
value_counts(col) ==
    LET kept == DropNa(col)
    IN  SortedByCountDesc(CounterItems([i \in 1..Len(kept) |-> Get(kept[i])]))

\* .head(n)
head(s, n) == SubSeq(s, 1, IF n < Len(s) THEN n ELSE Len(s))

\* .sort_index() of a value_counts whose keys are numbers
RECURSIVE sort_index(_)
sort_index(items) ==
    IF items = << >> THEN << >>
    ELSE LET low == Min({items[i][1] : i \in DOMAIN items})
             i   == CHOOSE k \in DOMAIN items : items[k][1] = low
         IN  << items[i] >> \o sort_index(RemoveAt(items, i))

----------------------------------------------------------------------------
(* CORD19Analyzer *)

ReturnNone == [kind |-> "None", val |-> NaN, exc |-> ""]

Return(v) == [kind |-> "value", val |-> Val(v), exc |-> ""]

Raise(e) == [kind |-> "raise", val |-> NaN, exc |-> e]

\* variant of AbstractWordCount: len(str(x).split(' ')), which counts the
\* pieces between single spaces
AbstractWordCountBySpace(r) ==
    1 + Cardinality({i \in 1..Len(Get(r.abstract)) : Get(r.abstract)[i] = " "})

\* line 80: len(str(x).split())
AbstractWordCount(r) == Len(StrSplit(Get(r.abstract)))

\* line 85: .str.strip().str.title()
JournalClean(r) == Val(StrTitle(StrStrip(Get(r.journal_clean))))

\* lines 61-88.  Every statement assigns self.df_clean, so a KeyError leaves
\* the table as the statements before it made it.
CleanSteps(raw) ==
    LET s1 == SelectRows(raw, [i \in DOMAIN raw.rows |-> ~isna(raw.rows[i].title)])
        s2 == SetColumn(s1, "abstract",
                        [i \in DOMAIN s1.rows |-> fillna(s1.rows[i].abstract, << >>)])
        s3 == SetColumn(s2, "publish_time",
                        [i \in DOMAIN s2.rows |-> to_datetime(s2.rows[i].publish_time)])
        s4 == SetColumn(s3, "publication_year",
                        [i \in DOMAIN s3.rows |-> dt_year(s3.rows[i].publish_time)])
        s5 == SetColumn(s4, "abstract_word_count",
                        [i \in DOMAIN s4.rows |-> AbstractWordCount(s4.rows[i])])
        s6 == SetColumn(s5, "journal_clean",
                        [i \in DOMAIN s5.rows |-> fillna(s5.rows[i].journal, Unknown)])
        s7 == SetColumn(s6, "journal_clean",
                        [i \in DOMAIN s6.rows |-> JournalClean(s6.rows[i])])
    IN  IF "title" \notin raw.columns THEN [table |-> raw, ret |-> Raise("KeyError")]
        ELSE IF "abstract" \notin raw.columns THEN [table |-> s1, ret |-> Raise("KeyError")]
        ELSE IF "publish_time" \notin raw.columns THEN [table |-> s2, ret |-> Raise("KeyError")]
        ELSE IF "journal" \notin raw.columns THEN [table |-> s5, ret |-> Raise("KeyError")]
        ELSE [table |-> s7, ret |-> Return(s7)]

YearMin == 2019

YearMax == 2023

\* lines 98-105
PublicationsByYear(t) ==
    LET v1 == SelectRows(t, [i \in DOMAIN t.rows |-> ~isna(t.rows[i].publication_year)])
        v2 == SelectRows(v1, [i \in DOMAIN v1.rows |->
                                 Get(v1.rows[i].publication_year) >= YearMin])
        v3 == SelectRows(v2, [i \in DOMAIN v2.rows |->
                                 Get(v2.rows[i].publication_year) <= YearMax])
    IN  sort_index(value_counts(ColumnOf(v3, "publication_year")))

\* variant of Query: the guard on self.df_clean is missing, so None is
\* subscripted
QueryUnguarded(c, result) ==
    IF isna(df_clean) THEN Raise("TypeError")
    ELSE IF c \notin Get(df_clean).columns THEN Raise("KeyError")
    ELSE Return(result)

\* a query on self.df_clean that reads column c: None before cleaning,
\* KeyError when the table has no such column
Query(c, result) ==
    IF isna(df_clean) THEN ReturnNone
    ELSE IF c \notin Get(df_clean).columns THEN Raise("KeyError")
    ELSE Return(result)

Analyzer(name, r) ==
    /\ call' = name
    /\ ret' = r
    /\ UNCHANGED <<file, session, outcome, criteria, view,
                   column, top_n, words, top_words>>

\* lines 22-32
load_data ==
    /\ IF isna(file)
       THEN /\ df' = df
            /\ Analyzer("load_data", Return(FALSE))
       ELSE /\ df' = file
            /\ Analyzer("load_data", Return(TRUE))
    /\ UNCHANGED df_clean

\* lines 52-88
clean_data ==
    IF isna(df)
    THEN /\ Analyzer("clean_data", ReturnNone)
         /\ UNCHANGED <<df, df_clean>>
    ELSE /\ df_clean' = Val(CleanSteps(Get(df)).table)
         /\ Analyzer("clean_data", CleanSteps(Get(df)).ret)
         /\ UNCHANGED df

\* lines 90-105
analyze_publications_over_time ==
    /\ Analyzer("analyze_publications_over_time",
                Query("publication_year", PublicationsByYear(Get(df_clean))))
    /\ UNCHANGED <<df, df_clean>>

TopNs == {1, 10}

\* lines 107-116
analyze_top_journals ==
    /\ \E n \in TopNs :
          Analyzer("analyze_top_journals",
                   Query("journal_clean",
                         head(value_counts(ColumnOf(Get(df_clean), "journal_clean")), n)))
    /\ UNCHANGED <<df, df_clean>>

\* lines 118-144
analyze_word_frequencies ==
    /\ \E c \in {"title", "abstract"}, n \in TopNs :
          Analyzer("analyze_word_frequencies",
                   Query(c, WordFrequencies(ColumnOf(Get(df_clean), c), n)))
    /\ UNCHANGED <<df, df_clean>>

\* lines 146-163; the image WordCloud draws from the text is not modelled
create_wordcloud ==
    /\ \E c \in {"title", "abstract"} :
          Analyzer("create_wordcloud",
                   Query(c, AllText(ColumnOf(Get(df_clean), c))))
    /\ UNCHANGED <<df, df_clean>>

SourcesTopN == 10

\* lines 165-174
analyze_sources ==
    /\ Analyzer("analyze_sources",
                Query("source_x",
                      head(value_counts(ColumnOf(Get(df_clean), "source_x")), SourcesTopN)))
    /\ UNCHANGED <<df, df_clean>>

----------------------------------------------------------------------------
(* The files read_csv may find *)

MaxRows == 2

\* CSV records: an empty field is read as NaN, so no cell holds the empty
\* string
RowPool ==
    { [title |-> Val(<<"f","l","u">>),
       abstract |-> NaN,
       journal |-> NaN,
       source_x |-> NaN, publish_time |-> NaN],
      [title |-> NaN,
       abstract |-> Val(<<"a"," ","b">>),
       journal |-> Val(<<"b","m","j">>),
       source_x |-> Val("PMC"), publish_time |-> Val("2019-01-15")],
      [title |-> Val(<<"t","h","e"," ","f","l","u","1","9"," ","s","a","r","s">>),
       abstract |-> Val(<<" ","a","b"," "," ","c","d"," ">>),
       journal |-> Val(<<" ","b","m","j"," ">>),
       source_x |-> Val("PMC"), publish_time |-> Val("2019-03-09")],
      [title |-> Val(<<"S","a","r","s">>),
       abstract |-> Val(<<" ">>),
       journal |-> Val(<<"B","M","J">>),
       source_x |-> Val("WHO"), publish_time |-> Val("2018-05-02")],
      [title |-> Val(<<"s","a","r","s"," ","f","l","u">>),
       abstract |-> Val(<<"a","\t","b"," ","c">>),
       journal |-> Val(<<"t","h","e"," ","l","a","n","c","e","t">>),
       source_x |-> NaN, publish_time |-> Val("not a date")] }

\* the header of the file: all recognized columns, all but one, or title alone
ColumnSets == {RecognizedColumns} \cup {RecognizedColumns \ {c} : c \in RecognizedColumns}
              \cup {{"title"}}

\* the table read_csv builds: RangeIndex labels 0, 1, ...
MakeTable(cols, records) ==
    [columns |-> cols,
     rows    |-> [i \in 1..Len(records) |->
                    [k \in cols \cup {"index"} |->
                        IF k = "index" THEN i - 1 ELSE records[i][k]]]]

RawTables == {MakeTable(cols, records) :
                 cols \in ColumnSets,
                 records \in UNION {[1..n -> RowPool] : n \in 0..MaxRows}}

Files == {NaN} \cup {Val(t) : t \in RawTables}

----------------------------------------------------------------------------
(* The analyzer used as a library: any order of calls *)

NoCriteria == [year_range |-> <<0, 0>>, journals |-> {}, sources |-> {}]

Init ==
    /\ file \in Files
    /\ df = NaN
    /\ df_clean = NaN
    /\ call = "__init__"
    /\ ret = ReturnNone
    /\ session = FALSE
    /\ outcome = "none"
    /\ criteria = NoCriteria
    /\ view = NaN
    /\ column = << >>
    /\ top_n = 0
    /\ words = << >>
    /\ top_words = NaN

Next ==
    \/ load_data
    \/ clean_data
    \/ analyze_publications_over_time
    \/ analyze_top_journals
    \/ analyze_word_frequencies
    \/ create_wordcloud
    \/ analyze_sources

Spec == Init /\ [][Next]_vars

----------------------------------------------------------------------------
(* app.py: one run of main() per interaction *)

JournalOptionsN == 20

JournalDefaultN == 5

SourceDefaultN == 3

TopJournalsShown == 10

TopSourcesShown == 10

WordsTopN == 15

AbstractMinLen == 100

DefaultYearMin == 2019

DefaultYearMax == 2023

PresentYears(t) == {Get(t.rows[i].publication_year) :
                      i \in {k \in DOMAIN t.rows : ~isna(t.rows[k].publication_year)}}

\* lines 68-69
min_year(t) == IF PresentYears(t) = {} THEN DefaultYearMin ELSE Min(PresentYears(t))

max_year(t) == IF PresentYears(t) = {} THEN DefaultYearMax ELSE Max(PresentYears(t))

\* lines 80 and 83: the index of analyze_top_journals(20)
JournalOptions(t) ==
    LET top == head(value_counts(ColumnOf(t, "journal_clean")), JournalOptionsN)
    IN  [i \in 1..Len(top) |-> top[i][1]]

\* line 89: dropna().unique().tolist()
SourceOptions(t) ==
    LET kept == DropNa(ColumnOf(t, "source_x"))
    IN  FirstSeen([i \in 1..Len(kept) |-> Get(kept[i])])

\* the widget values of a first rendering (lines 75, 84, 93)
DefaultCriteria(t) ==
    [year_range |-> <<min_year(t), max_year(t)>>,
     journals   |-> Range(head(JournalOptions(t), JournalDefaultN)),
     sources    |-> IF Len(SourceOptions(t)) > SourceDefaultN
                    THEN Range(head(SourceOptions(t), SourceDefaultN))
                    ELSE Range(SourceOptions(t))]

\* the values the widgets let the user choose: a sub-range of the slider and
\* any selection of the offered journals and sources
CriteriaChoices(t) ==
    {[year_range |-> <<lo, hi>>, journals |-> js, sources |-> ss] :
        lo \in min_year(t)..max_year(t),
        hi \in min_year(t)..max_year(t),
        js \in SUBSET Range(JournalOptions(t)),
        ss \in SUBSET Range(SourceOptions(t))}

\* Series.isin(values): a NaN cell is in no selection of the widgets
isin(col, values) == [i \in DOMAIN col |-> ~isna(col[i]) /\ Get(col[i]) \in values]

\* lines 100-103: a comparison with NaN is False
FilterByYear(t, c) ==
    SelectRows(t, [i \in DOMAIN t.rows |->
                     /\ ~isna(t.rows[i].publication_year)
                     /\ Get(t.rows[i].publication_year) >= c.year_range[1]
                     /\ Get(t.rows[i].publication_year) <= c.year_range[2]])

\* variant of FilterByJournal: the selection is applied even when it is empty
FilterByJournalAlways(t, c) ==
    SelectRows(t, isin(ColumnOf(t, "journal_clean"), c.journals))

\* lines 106-107
FilterByJournal(t, c) ==
    IF c.journals # {}
    THEN SelectRows(t, isin(ColumnOf(t, "journal_clean"), c.journals))
    ELSE t

\* lines 110-111
FilterBySource(t, c) ==
    IF c.sources # {}
    THEN SelectRows(t, isin(ColumnOf(t, "source_x"), c.sources))
    ELSE t

\* lines 97-111
ApplyFilters(t, c) == FilterBySource(FilterByJournal(FilterByYear(t, c), c), c)

RECURSIVE Sum(_)
Sum(s) == IF s = << >> THEN 0 ELSE Head(s) + Sum(Tail(s))

\* Series.mean(): NaN for an empty series, else the exact quotient sum/count
mean(s) == IF s = << >> THEN NaN ELSE Val([num |-> Sum(s), den |-> Len(s)])

\* Series.nunique()
nunique(col) == Cardinality(Range(DropNa(col)))

\* .dt.to_period('M') on one cell
to_period_M(v) == IF isna(v) THEN NaN ELSE Val(<<Get(v).year, Get(v).month>>)

\* sort_index() of a value_counts whose keys are monthly periods
RECURSIVE sort_periods(_)
sort_periods(items) ==
    IF items = << >> THEN << >>
    ELSE LET ord(p) == p[1] * 12 + p[2]
             low == Min({ord(items[i][1]) : i \in DOMAIN items})
             i   == CHOOSE k \in DOMAIN items : ord(items[k][1]) = low
         IN  << items[i] >> \o sort_periods(RemoveAt(items, i))

\* lines 129-140
SummaryMetrics(f) ==
    [total_papers       |-> Len(f.rows),
     unique_journals    |-> nunique(ColumnOf(f, "journal_clean")),
     avg_words          |-> mean(ColumnOf(f, "abstract_word_count")),
     complete_abstracts |-> Len(SelectRows(f, [i \in DOMAIN f.rows |->
                                                 f.rows[i].abstract_word_count > 0]).rows)]

\* line 146
YearlyCounts(f) == sort_index(value_counts(ColumnOf(f, "publication_year")))

\* lines 187-189
MonthlyCounts(f) ==
    sort_periods(value_counts([i \in 1..Len(f.rows) |-> to_period_M(f.rows[i].publish_time)]))

\* line 163
TopJournals(f) == head(value_counts(ColumnOf(f, "journal_clean")), TopJournalsShown)

\* line 175
SourceDist(f) == head(value_counts(ColumnOf(f, "source_x")), TopSourcesShown)

\* lines 113-292: what main() hands to the page from the working table t
\* (analyzer.df_clean) and the widget values c
Render(t, c) ==
    LET f == ApplyFilters(t, c)
    IN  [filtered_df    |-> f,
         metrics        |-> SummaryMetrics(f),
         yearly_counts  |-> YearlyCounts(f),
         top_journals   |-> TopJournals(f),
         source_dist    |-> SourceDist(f),
         monthly_counts |-> MonthlyCounts(f),
         wordcloud_text |-> AllText(ColumnOf(f, "title")),
         \* line 228: analyzer.analyze_word_frequencies reads analyzer.df_clean
         title_words    |-> WordFrequencies(ColumnOf(t, "title"), WordsTopN),
         \* lines 241-243
         abstract_words |-> IF Len(AllText(ColumnOf(f, "abstract"))) > AbstractMinLen
                            THEN Val(WordFrequencies(ColumnOf(t, "abstract"), WordsTopN))
                            ELSE NaN]

\* what one interaction can make of the widget values c: the user changes
\* one widget and Streamlit runs main() again
OneWidgetChanged(t, c) ==
    {d \in CriteriaChoices(t) :
        /\ d.year_range[1] <= d.year_range[2]
        /\ \/ d.year_range # c.year_range /\ d.journals = c.journals /\ d.sources = c.sources
           \/ d.year_range = c.year_range /\ d.journals # c.journals /\ d.sources = c.sources
           \/ d.year_range = c.year_range /\ d.journals = c.journals /\ d.sources # c.sources}

\* lines 60-292 with analyzer.df_clean = dfc: the sidebar, the filters and the
\* tabs.  prev is NaN when the widgets are new, else their last values.  An
\* exception ends the run and nothing is handed to the page.
Page(dfc, prev) ==
    IF isna(dfc)
    THEN /\ outcome' = "TypeError"
         /\ view' = NaN
         /\ UNCHANGED criteria
    ELSE IF {"publication_year", "journal_clean", "source_x"} \subseteq Get(dfc).columns
    THEN \E c \in (IF isna(prev) THEN {DefaultCriteria(Get(dfc))}
                   ELSE OneWidgetChanged(Get(dfc), Get(prev))) :
            /\ criteria' = c
            /\ view' = Val(Render(Get(dfc), c))
            /\ outcome' = "rendered"
    ELSE /\ outcome' = "KeyError"
         /\ view' = NaN
         /\ UNCHANGED criteria

\* the first run of a session: lines 48-58, then the page
FirstRun ==
    /\ ~session
    /\ session' = TRUE
    /\ IF isna(file)
       THEN /\ outcome' = "load_error"
            /\ UNCHANGED <<df, df_clean, criteria, view>>
       ELSE /\ df' = file
            /\ df_clean' = Val(CleanSteps(Get(file)).table)
            /\ IF CleanSteps(Get(file)).ret.kind = "raise"
               THEN /\ outcome' = "KeyError"
                    /\ UNCHANGED <<criteria, view>>
               ELSE Page(df_clean', NaN)
    /\ UNCHANGED <<file, call, ret, column, top_n, words, top_words>>

\* a later run of the same session: line 48 is false, then the page
Interaction ==
    /\ session
    /\ Page(df_clean, IF outcome = "rendered" THEN Val(criteria) ELSE NaN)
    /\ UNCHANGED <<file, df, df_clean, session, call, ret,
                   column, top_n, words, top_words>>

NextApp ==
    \/ FirstRun
    \/ Interaction

SpecApp == Init /\ [][NextApp]_vars

----------------------------------------------------------------------------
(* analyze_word_frequencies as a function of the column it reads *)

MaxTextLen == 4

TextAlphabet == {"a", "B", " ", "1", "_", "-"}

BoundedTexts == UNION {[1..n -> TextAlphabet] : n \in 0..MaxTextLen}

\* the two titles of the scenario, in row order
ScenarioTitles ==
    << Val(<<"C","O","V","I","D"," ","v","a","c","c","i","n","e"," ","t","r","i","a","l">>),
       Val(<<"v","a","c","c","i","n","e"," ","e","f","f","i","c","a","c","y"," ","a","n","d"," ","c","o","v","i","d"," ","s","p","r","e","a","d">>) >>

MixedTitles ==
    << Val(<<"C","o","v","i","d","1","9"," ","a","n","d"," ","t","h","e"," ","f","l","u">>), NaN,
       Val(<<"f","l","u","_","s","h","o","t",","," ","F","L","U",";"," ","f","l","u","-","l","i","k","e">>) >>

TextColumns == {<< Val(s) >> : s \in BoundedTexts} \cup {ScenarioTitles, MixedTitles}

InitText ==
    /\ column \in TextColumns
    /\ top_n \in {1, 5}
    /\ words = << >>
    /\ top_words = NaN
    /\ file = NaN
    /\ df = NaN
    /\ df_clean = NaN
    /\ call = "__init__"
    /\ ret = ReturnNone
    /\ session = FALSE
    /\ outcome = "none"
    /\ criteria = NoCriteria
    /\ view = NaN

\* lines 126-144 on the chosen column: the tokens of line 130 and the result
word_frequencies ==
    /\ isna(top_words)
    /\ words' = WordsOf(column)
    /\ top_words' = Val(WordFrequencies(column, top_n))
    /\ UNCHANGED <<file, df, df_clean, call, ret, session, outcome, criteria, view,
                   column, top_n>>

NextText == word_frequencies

SpecText == InitText /\ [][NextText]_vars

----------------------------------------------------------------------------
(* Properties of the analyzer (Spec) *)

\* the number of whitespace-delimited tokens of s: the positions where a run
\* of non-whitespace starts
TokenCount(s) ==
    Cardinality({i \in 1..Len(s) : ~IsSpace(s[i]) /\ (i = 1 \/ IsSpace(s[i-1]))})

Queries == {"analyze_publications_over_time", "analyze_top_journals",
            "analyze_word_frequencies", "analyze_sources", "create_wordcloud"}

\* C7: a query called while there is no working table, and clean_data called
\* while there is no raw table, returns None (no result, no exception) and
\* changes neither table.
C7_PreconditionFailure ==
    [][ /\ (call' \in Queries /\ isna(df_clean)) =>
              (ret' = ReturnNone /\ df' = df /\ df_clean' = df_clean)
        /\ (call' = "clean_data" /\ isna(df)) =>
              (ret' = ReturnNone /\ df' = df /\ df_clean' = df_clean) ]_vars

\* a query answered None on a loaded table that was never cleaned
C7_Witness ==
    /\ call \in Queries
    /\ ~isna(df)
    /\ isna(df_clean)
    /\ ret = ReturnNone

\* C8: with a title column, cleaning succeeds whatever other recognized
\* columns the file lacks, and a missing column reads as absent in every row.
C8_MissingColumnsTolerated ==
    (call = "clean_data" /\ ~isna(df) /\ "title" \in Get(df).columns) =>
        /\ ret.kind = "value"
        /\ \A i \in DOMAIN Get(df_clean).rows :
              LET r == Get(df_clean).rows[i]
              IN  /\ "abstract" \notin Get(df).columns =>
                        (r.abstract = Val(<< >>) /\ r.abstract_word_count = 0)
                  /\ "journal" \notin Get(df).columns => r.journal_clean = Val(Unknown)
                  /\ "publish_time" \notin Get(df).columns => isna(r.publication_year)

----------------------------------------------------------------------------
(* Properties of the page (SpecApp) *)

\* C2: a row of the working table is in the filtered table iff its year is
\* present and within the range, the journal selection is empty or holds its
\* journal, and the source selection is empty or holds its source.
C2_FilterPredicate ==
    outcome = "rendered" =>
        LET t == Get(df_clean)
            f == Get(view).filtered_df
            Matches(r) ==
                /\ ~isna(r.publication_year)
                /\ criteria.year_range[1] <= Get(r.publication_year)
                /\ Get(r.publication_year) <= criteria.year_range[2]
                /\ (criteria.journals = {} \/ Get(r.journal_clean) \in criteria.journals)
                /\ (criteria.sources = {}
                      \/ (~isna(r.source_x) /\ Get(r.source_x) \in criteria.sources))
        IN  /\ Range(f.rows) \subseteq Range(t.rows)
            /\ \A i \in DOMAIN t.rows : (t.rows[i] \in Range(f.rows)) <=> Matches(t.rows[i])

\* an empty journal selection that removed nothing, beside a row without year
\* that the year filter removed
C2_Witness ==
    /\ outcome = "rendered"
    /\ criteria.journals = {}
    /\ Len(Get(view).filtered_df.rows) >= 1
    /\ \E i \in DOMAIN Get(df_clean).rows : isna(Get(df_clean).rows[i].publication_year)

\* counts is ordered by year ascending, holds only years of [2019, 2023] and
\* sums to at most the rows of t with a year
CountsWithinBounds(counts, t) ==
    /\ \A i \in DOMAIN counts : YearMin <= counts[i][1] /\ counts[i][1] <= YearMax
    /\ \A i, j \in DOMAIN counts : i < j => counts[i][1] < counts[j][1]
    /\ Sum([i \in DOMAIN counts |-> counts[i][2]])
          <= Cardinality({i \in DOMAIN t.rows : ~isna(t.rows[i].publication_year)})

\* the batch half of C3, which holds under Spec
C3_BatchCountsBounded ==
    (call = "analyze_publications_over_time" /\ ret.kind = "value") =>
        CountsWithinBounds(Get(ret.val), Get(df_clean))

\* C3: the counts by year, of analyze_publications_over_time and of the page,
\* hold only years of [2019, 2023], ascending, and sum to at most the rows
\* with a year.
C3_CountsByYearBounded ==
    /\ C3_BatchCountsBounded
    /\ outcome = "rendered" =>
          CountsWithinBounds(Get(view).yearly_counts, Get(view).filtered_df)

\* C6: on an empty filtered table the metrics are 0, 0, 0 and the mean 0.0.
C6_EmptyTableMetrics ==
    (outcome = "rendered" /\ Get(view).filtered_df.rows = << >>) =>
        /\ Get(view).metrics.total_papers = 0
        /\ Get(view).metrics.unique_journals = 0
        /\ Get(view).metrics.complete_abstracts = 0
        /\ Get(view).metrics.avg_words = Val([num |-> 0, den |-> 1])

\* C9: every aggregate handed to the page is that aggregate of the filtered
\* table of the current criteria.
C9_AggregatesOverFiltered ==
    outcome = "rendered" =>
        LET v == Get(view)
            f == ApplyFilters(Get(df_clean), criteria)
        IN  /\ v.filtered_df = f
            /\ v.metrics = SummaryMetrics(f)
            /\ v.yearly_counts = YearlyCounts(f)
            /\ v.monthly_counts = MonthlyCounts(f)
            /\ v.top_journals = TopJournals(f)
            /\ v.source_dist = SourceDist(f)
            /\ v.title_words = WordFrequencies(ColumnOf(f, "title"), WordsTopN)
            /\ ~isna(v.abstract_words) =>
                  Get(v.abstract_words) = WordFrequencies(ColumnOf(f, "abstract"), WordsTopN)

\* C10: in a session whose load failed, every run ends reporting the load
\* failure; none goes on to the sidebar and the filters.
C10_LoadFailureReported ==
    (session /\ isna(file)) => outcome = "load_error"

----------------------------------------------------------------------------
(* Properties of the word frequencies (SpecText) *)

\* the end of the run of letters that starts at i
RECURSIVE RunEnd(_, _)
RunEnd(s, i) == IF i < Len(s) /\ IsLetter(s[i+1]) THEN RunEnd(s, i + 1) ELSE i

\* the maximal runs of letters of s that have at least 3 letters, in order
RECURSIVE LetterRunsFrom(_, _)
LetterRunsFrom(s, i) ==
    IF i > Len(s) THEN << >>
    ELSE IF ~IsLetter(s[i]) THEN LetterRunsFrom(s, i + 1)
    ELSE LET j == RunEnd(s, i)
         IN  (IF j - i + 1 >= 3 THEN << SubSeq(s, i, j) >> ELSE << >>)
                 \o LetterRunsFrom(s, j + 1)

\* C5: the tokens are the lower-cased maximal runs of at least 3 letters; a
\* digit or underscore next to a run only ends it.
C5_TokensAreLetterRuns ==
    ~isna(top_words) => words = LetterRunsFrom(StrLower(AllText(column)), 1)

ScenarioRun == column = ScenarioTitles /\ top_n = 5 /\ ~isna(top_words)

\* C4 as claimed: the scenario yields vaccine:2, covid:2, trial:1,
\* efficacy:1, spread:1, vaccine before covid.
C4_VaccineFirst ==
    ScenarioRun =>
        Get(top_words) = << <<<<"v","a","c","c","i","n","e">>, 2>>, <<<<"c","o","v","i","d">>, 2>>, <<<<"t","r","i","a","l">>, 1>>,
                            <<<<"e","f","f","i","c","a","c","y">>, 1>>, <<<<"s","p","r","e","a","d">>, 1>> >>

\* C4 as amended: the scenario yields covid:2, vaccine:2, trial:1,
\* efficacy:1, spread:1: of the two words tied at 2, covid comes first, being
\* the first of the two in the text ("COVID vaccine trial ...").
C4_CovidFirst ==
    ScenarioRun =>
        Get(top_words) = << <<<<"c","o","v","i","d">>, 2>>, <<<<"v","a","c","c","i","n","e">>, 2>>, <<<<"t","r","i","a","l">>, 1>>,
                            <<<<"e","f","f","i","c","a","c","y">>, 1>>, <<<<"s","p","r","e","a","d">>, 1>> >>

C4_Witness == ScenarioRun

=============================================================================
